---- MODULE Spec2Model ----
(***************************************************************************)
(* Model of crsc::priority_queue (src/crescent_library/priority_queue.h):  *)
(* a binary heap stored in a std::vector, ordered by a comparator functor. *)
(* Positions are 0-based as in the source; the vector is a TLA+ sequence,  *)
(* so element i of the vector is h[i + 1].                                 *)
(***************************************************************************)
EXTENDS Integers, Sequences, FiniteSets, TLC

\* ---- bounds of the model ----
MaxVal == 2
MaxLen == 5
MaxCtr == 2
NThreads == 3
MaxInit == 1
MaxCalls == 4
MaxCount == 4
MaxCap == 8

\* ---- constants of the program ----
\* the capacity the first push_back gives an array of capacity 0
FirstCapacity == 8

Values == 1..MaxVal

\* unary predicates handed to find/alter: x == k and x > k
Preds == [kind : {"eq", "gt"}, k : Values]
NoPred == [kind |-> "none", k |-> 0]
NoArg == [pos |-> -1, last |-> -1, tgt |-> 0, val |-> 0, pred |-> NoPred]
NoRes == [it |-> -1, its |-> {}]
NoRun == [name |-> "none", path |-> <<>>, done |-> TRUE, i |-> -1]

VARIABLES
    heap_cntr,  \* the underlying std::vector
    comp,       \* the comparator type: "less" (std::less) or "greater" (std::greater)
    ub,         \* TRUE once a call has run into undefined behaviour and the process died
    op,         \* the public call that has just run, "none" once the client has moved on
    arg,        \* its arguments
    pre,        \* heap_cntr as it was when that call started
    phase,      \* position of the fill-then-drain client: "api", "fill", "drain"
    fed,        \* the sequence the client has enqueued
    out,        \* the sequence the client has read from top() while draining,
                \* or the sequence write_ordered has written to the stream
    res,        \* what the last call handed back: a position (it) or a set of positions (its)
    run,        \* the bubble_down/bubble_up/heapify call in progress, one invocation at a time
    heap_cntr_u, \* the std::vector of an unstable_priority_queue kept beside the safe queue
    \* crsc::semaphore and its client threads
    count,      \* semaphore::count, as a mathematical integer: below 0 means the size_t wrapped
    mut,        \* semaphore::mut: 0 when free, else the thread that holds it
    tpc,        \* where each thread is inside notify() or wait()
    sem_init,   \* the _count the semaphore was constructed with
    notified,   \* notify() calls that have returned
    waited,     \* wait() calls that have returned
    calls,      \* notify()/wait() calls started so far
    \* dynamic_array
    arr,        \* the elements arr[0 .. arr_size)
    arr_size,   \* dynamic_array::arr_size
    arr_capacity, \* dynamic_array::arr_capacity
    da_op       \* the dynamic_array call that has just run

sem_vars == <<count, mut, tpc, sem_init, notified, waited, calls>>

da_vars == <<arr, arr_size, arr_capacity, da_op>>

pq_vars == <<heap_cntr, comp, ub, op, arg, pre, phase, fed, out, res, run, heap_cntr_u>>

vars == <<pq_vars, sem_vars, da_vars>>

\* a run that uses no semaphore and no dynamic_array
SemUnused ==
    /\ count = 0
    /\ mut = 0
    /\ tpc = <<>>
    /\ sem_init = 0
    /\ notified = 0
    /\ waited = 0
    /\ calls = 0

DaUnused ==
    /\ arr = <<>>
    /\ arr_size = 0
    /\ arr_capacity = 0
    /\ da_op = [name |-> "none", n |-> 0, v |-> 0,
                pre |-> [arr |-> <<>>, arr_size |-> 0, arr_capacity |-> 0]]

\* ---- the comparator and the vector primitives ----

\* comp(a, b): std::less is a < b, std::greater is a > b
Comp(a, b) == IF comp = "less" THEN a < b ELSE a > b

At(h, i) == h[i + 1]

size(h) == Len(h)

empty(h) == Len(h) = 0

\* std::swap(heap_cntr[i], heap_cntr[j])
std_swap(h, i, j) == [h EXCEPT ![i + 1] = h[j + 1], ![j + 1] = h[i + 1]]

push_back(h, v) == Append(h, v)

pop_back(h) == SubSeq(h, 1, Len(h) - 1)

\* std::vector::erase(pos) for a dereferenceable pos: later elements shift left
vec_erase(h, pos) == SubSeq(h, 1, pos) \o SubSeq(h, pos + 2, Len(h))

\* slip: the element at last is erased too
vec_erase_range_incl(h, first, last) ==
    SubSeq(h, 1, first) \o SubSeq(h, last + 2, Len(h))

\* std::vector::erase(first, last)
vec_erase_range(h, first, last) == SubSeq(h, 1, first) \o SubSeq(h, last + 1, Len(h))

cend(h) == Len(h)

TestPred(p, x) == IF p.kind = "eq" THEN x = p.k ELSE x > p.k

\* slip: the first position is returned when nothing matches
find_or_begin(h, v) ==
    IF \E i \in 0..(Len(h) - 1) : At(h, i) = v
    THEN CHOOSE i \in 0..(Len(h) - 1) :
            At(h, i) = v /\ \A j \in 0..(i - 1) : At(h, j) # v
    ELSE 0

\* the loop of std::find over [first, cend)
RECURSIVE find_from(_, _, _)
find_from(h, v, first) ==
    IF first = cend(h) THEN cend(h)
    ELSE IF At(h, first) = v THEN first
    ELSE find_from(h, v, first + 1)

\* std::find(heap_cntr.begin(), heap_cntr.end(), _val)
find(h, v) == find_from(h, v, 0)

\* the loop of std::find_if over [first, cend)
RECURSIVE find_if_from(_, _, _)
find_if_from(h, p, first) ==
    IF first = cend(h) THEN cend(h)
    ELSE IF TestPred(p, At(h, first)) THEN first
    ELSE find_if_from(h, p, first + 1)

\* the loop of find_all: for (it = cbegin(); it < cend(); ++it) if (*it == _val) insert
RECURSIVE find_all_from(_, _, _, _)
find_all_from(h, v, it, it_set) ==
    IF it < cend(h)
    THEN find_all_from(h, v, it + 1, IF At(h, it) = v THEN it_set \cup {it} ELSE it_set)
    ELSE it_set

\* slip: the loop starts one position late
find_all_late(h, v) == find_all_from(h, v, 1, {})

find_all(h, v) == find_all_from(h, v, 0, {})

RECURSIVE find_all_if_from(_, _, _, _)
find_all_if_from(h, p, it, it_set) ==
    IF it < cend(h)
    THEN find_all_if_from(h, p, it + 1,
                          IF TestPred(p, At(h, it)) THEN it_set \cup {it} ELSE it_set)
    ELSE it_set

find_all_if(h, p) == find_all_if_from(h, p, 0, {})

\* std::find_if(heap_cntr.begin(), heap_cntr.end(), _p)
find_if(h, p) == find_if_from(h, p, 0)

top(h) == At(h, 0)

\* ---- the heap engine ----

\* slip: both comparisons have their arguments the other way round
bubble_down_flipped(h, pos) ==
    LET RECURSIVE down(_, _)
        down(g, p) ==
            LET l == 2 * p + 1
                r == 2 * p + 2
            IN  IF l >= Len(g) THEN g
                ELSE LET m1 == IF Comp(At(g, l), At(g, p)) THEN l ELSE p
                         m2 == IF r < Len(g) /\ Comp(At(g, r), At(g, m1)) THEN r ELSE m1
                     IN  IF m2 # p THEN down(std_swap(g, p, m2), m2) ELSE g
    IN  down(h, pos)

RECURSIVE bubble_down(_, _)
bubble_down(h, pos) ==
    LET heap_size == Len(h)
        left_child == 2 * pos + 1
        right_child == 2 * pos + 2
    IN  IF left_child >= heap_size THEN h
        ELSE LET m1 == IF Comp(At(h, pos), At(h, left_child)) THEN left_child ELSE pos
                 min_pos == IF right_child < heap_size /\ Comp(At(h, m1), At(h, right_child))
                            THEN right_child ELSE m1
             IN  IF min_pos # pos
                 THEN bubble_down(std_swap(h, pos, min_pos), min_pos)
                 ELSE h

\* slip: one swap, no further ascent
bubble_up_once(h, pos) ==
    IF pos = 0 THEN h
    ELSE LET parent == (pos - 1) \div 2
         IN  IF Comp(At(h, parent), At(h, pos)) THEN std_swap(h, pos, parent) ELSE h

RECURSIVE bubble_up(_, _)
bubble_up(h, pos) ==
    IF pos = 0 THEN h
    ELSE LET parent == (pos - 1) \div 2
         IN  IF Comp(At(h, parent), At(h, pos))
             THEN bubble_up(std_swap(h, pos, parent), parent)
             ELSE h

\* slip: the new top is not bubbled down
pop_top_nosift(h) ==
    LET heap_size == Len(h)
    IN  IF heap_size = 0 THEN h
        ELSE pop_back(std_swap(h, 0, heap_size - 1))

\* slip: the last element is dropped without the swap to position 0
pop_top_noswap(h) ==
    LET heap_size == Len(h)
    IN  IF heap_size = 0 THEN h
        ELSE bubble_down(pop_back(h), 0)

pop_top(h) ==
    LET heap_size == Len(h)
    IN  IF heap_size = 0 THEN h
        ELSE bubble_down(pop_back(std_swap(h, 0, heap_size - 1)), 0)

\* slip: the loop stops before position 0
heapify_from_skip_root(h, i) ==
    LET RECURSIVE loop(_, _)
        loop(g, k) == IF k > 0 THEN loop(bubble_down(g, k), k - 1) ELSE g
    IN  loop(h, i)

\* g is the storage after the loop body bubble_down(i); the rest of the loop runs on g
RECURSIVE heapify_from(_, _)
heapify_from(h, i) ==
    IF i > -1
    THEN CHOOSE r \in {heapify_from(g, i - 1) : g \in {bubble_down(h, i)}} : TRUE
    ELSE h

heapify(h) == heapify_from(h, Len(h) - 1)

\* ---- the public calls ----

\* every public call runs on a live process; it records its name, arguments and
\* the storage it started from
\* r records the engine routine the call handed the repair to, if the claims ask
CallVia(name, a, h, died, r) ==
    /\ heap_cntr' = h
    /\ ub' = died
    /\ op' = name
    /\ arg' = a
    /\ pre' = heap_cntr
    /\ res' = NoRes
    /\ run' = r
    /\ UNCHANGED <<comp, phase, fed, out, heap_cntr_u, sem_vars, da_vars>>

Call(name, a, h, died) == CallVia(name, a, h, died, NoRun)

\* the call ended in bubble_up(pos) or bubble_down(pos)
Via(name, pos) == [name |-> name, path |-> <<pos>>, done |-> TRUE, i |-> -1]

\* the client is between two calls of a live process
Live == ~ub /\ phase = "api" /\ op = "none"

\* the client takes the result of the call and goes on: the record of the call is dropped
ret ==
    /\ ~ub
    /\ phase \in {"api", "manual"}
    /\ op # "none"
    /\ op' = "none"
    /\ arg' = NoArg
    /\ pre' = <<>>
    /\ res' = NoRes
    /\ out' = <<>>
    /\ run' = NoRun
    /\ UNCHANGED <<heap_cntr, comp, ub, phase, fed, heap_cntr_u, sem_vars, da_vars>>

\* std::vector::push_back / emplace_back that throws (allocation or element
\* construction): the vector is as before the call
push_back_throws(h, v) == h

\* slip: room is made first (resize(size() + 1), a default element) and the
\* assignment of the value is what throws
enqueue_room_first(v) ==
    /\ Live
    /\ \/ /\ Len(heap_cntr) < MaxLen
          /\ LET h == push_back(heap_cntr, v)
             IN  Call("enqueue", [NoArg EXCEPT !.val = v], bubble_up(h, size(h) - 1), FALSE)
       \/ Call("enqueue_threw", [NoArg EXCEPT !.val = v], Append(heap_cntr, 0), FALSE)

\* enqueue: push_back, then bubble_up; an exception of push_back leaves the call
\* before bubble_up is reached
enqueue(v) ==
    /\ Live
    /\ \/ /\ Len(heap_cntr) < MaxLen
          /\ LET h == push_back(heap_cntr, v)
             IN  Call("enqueue", [NoArg EXCEPT !.val = v], bubble_up(h, size(h) - 1), FALSE)
       \/ Call("enqueue_threw", [NoArg EXCEPT !.val = v],
                push_back_throws(heap_cntr, v), FALSE)

\* emplace: emplace_back, then bubble_up; likewise when emplace_back throws
emplace(v) ==
    /\ Live
    /\ \/ /\ Len(heap_cntr) < MaxLen
          /\ LET h == push_back(heap_cntr, v)
             IN  Call("emplace", [NoArg EXCEPT !.val = v], bubble_up(h, size(h) - 1), FALSE)
       \/ Call("emplace_threw", [NoArg EXCEPT !.val = v],
                push_back_throws(heap_cntr, v), FALSE)

dequeue ==
    /\ Live
    /\ Call("dequeue", NoArg, pop_top(heap_cntr), FALSE)

clear ==
    /\ Live
    /\ Call("clear", NoArg, <<>>, FALSE)

\* alter(pair): *it = second comes before the direction test on the pair
\* slip: the direction test reads the stored element, which is already overwritten
alter_pair_test_stored(tgt, v) ==
    /\ Live
    /\ LET it == find(heap_cntr, tgt)
           w == [heap_cntr EXCEPT ![it + 1] = v]
           b_up == Comp(At(w, it), v)
           h == IF it # cend(heap_cntr)
                THEN IF b_up THEN bubble_up(w, it) ELSE bubble_down(w, it)
                ELSE heap_cntr
           via == IF it # cend(heap_cntr)
                  THEN Via(IF b_up THEN "bubble_up" ELSE "bubble_down", it)
                  ELSE NoRun
       IN  CallVia("alter_pair", [NoArg EXCEPT !.tgt = tgt, !.val = v], h, FALSE, via)

alter_pair(tgt, v) ==
    /\ Live
    /\ LET it == find(heap_cntr, tgt)
           w == [heap_cntr EXCEPT ![it + 1] = v]
           b_up == Comp(tgt, v)
           h == IF it # cend(heap_cntr)
                THEN IF b_up THEN bubble_up(w, it) ELSE bubble_down(w, it)
                ELSE heap_cntr
           via == IF it # cend(heap_cntr)
                  THEN Via(IF b_up THEN "bubble_up" ELSE "bubble_down", it)
                  ELSE NoRun
       IN  CallVia("alter_pair", [NoArg EXCEPT !.tgt = tgt, !.val = v], h, FALSE, via)

\* slip: the direction test has its arguments the other way round
alter_pos_flipped(pos, v) ==
    /\ Live
    /\ pos \in 0..(Len(heap_cntr) - 1)
    /\ LET b_up == Comp(v, At(heap_cntr, pos))
           w == [heap_cntr EXCEPT ![pos + 1] = v]
           h == IF b_up THEN bubble_up(w, pos) ELSE bubble_down(w, pos)
       IN  CallVia("alter_pos", [NoArg EXCEPT !.pos = pos, !.val = v], h, FALSE,
                   Via(IF b_up THEN "bubble_up" ELSE "bubble_down", pos))

\* slip: b_up is evaluated after the assignment, on the new element
alter_pos_test_late(pos, v) ==
    /\ Live
    /\ pos \in 0..(Len(heap_cntr) - 1)
    /\ LET w == [heap_cntr EXCEPT ![pos + 1] = v]
           b_up == Comp(At(w, pos), v)
           h == IF b_up THEN bubble_up(w, pos) ELSE bubble_down(w, pos)
       IN  CallVia("alter_pos", [NoArg EXCEPT !.pos = pos, !.val = v], h, FALSE,
                   Via(IF b_up THEN "bubble_up" ELSE "bubble_down", pos))

\* alter(const_iterator, value): _pos is a dereferenceable iterator
alter_pos(pos, v) ==
    /\ Live
    /\ pos \in 0..(Len(heap_cntr) - 1)
    /\ LET b_up == Comp(At(heap_cntr, pos), v)
           w == [heap_cntr EXCEPT ![pos + 1] = v]
           h == IF b_up THEN bubble_up(w, pos) ELSE bubble_down(w, pos)
       IN  CallVia("alter_pos", [NoArg EXCEPT !.pos = pos, !.val = v], h, FALSE,
                   Via(IF b_up THEN "bubble_up" ELSE "bubble_down", pos))

alter_pred(v, p) ==
    /\ Live
    /\ LET it == find_if(heap_cntr, p)
           b_up == Comp(At(heap_cntr, it), v)
           w == [heap_cntr EXCEPT ![it + 1] = v]
           h == IF it # cend(heap_cntr)
                THEN IF b_up THEN bubble_up(w, it) ELSE bubble_down(w, it)
                ELSE heap_cntr
           via == IF it # cend(heap_cntr)
                  THEN Via(IF b_up THEN "bubble_up" ELSE "bubble_down", it)
                  ELSE NoRun
       IN  CallVia("alter_pred", [NoArg EXCEPT !.val = v, !.pred = p], h, FALSE, via)

\* slip: only the first match is overwritten
alter_all_pair_first(tgt, v) ==
    /\ Live
    /\ LET it == find(heap_cntr, tgt)
           w == IF it # cend(heap_cntr) THEN [heap_cntr EXCEPT ![it + 1] = v] ELSE heap_cntr
       IN  Call("alter_all_pair", [NoArg EXCEPT !.tgt = tgt, !.val = v], heapify(w), FALSE)

alter_all_pair(tgt, v) ==
    /\ Live
    /\ LET w == [i \in 1..Len(heap_cntr) |->
                    IF heap_cntr[i] = tgt THEN v ELSE heap_cntr[i]]
       IN  Call("alter_all_pair", [NoArg EXCEPT !.tgt = tgt, !.val = v], heapify(w), FALSE)

alter_all_pred(v, p) ==
    /\ Live
    /\ LET w == [i \in 1..Len(heap_cntr) |->
                    IF TestPred(p, heap_cntr[i]) THEN v ELSE heap_cntr[i]]
       IN  Call("alter_all_pred", [NoArg EXCEPT !.val = v, !.pred = p], heapify(w), FALSE)

\* erase(const_iterator): pos is a dereferenceable iterator
erase_pos(pos) ==
    /\ Live
    /\ pos \in 0..(Len(heap_cntr) - 1)
    /\ LET h == vec_erase(heap_cntr, pos)
       IN  Call("erase_pos", [NoArg EXCEPT !.pos = pos], bubble_down(h, pos), FALSE)

\* What std::vector::erase(end()) can do (undefined behaviour): the process dies,
\* the call has no effect, or the finish pointer is decremented so that the last
\* element is dropped; on an empty vector the decrement corrupts the vector.
EraseEndOutcomes(h) ==
    IF Len(h) = 0
    THEN {[h |-> h, died |-> TRUE], [h |-> h, died |-> FALSE]}
    ELSE {[h |-> h, died |-> TRUE], [h |-> h, died |-> FALSE],
          [h |-> pop_back(h), died |-> FALSE]}

\* erase(const value_type&): find's result goes to vector::erase unchecked
erase_val(v) ==
    /\ Live
    /\ LET it == find(heap_cntr, v)
       IN  IF it # cend(heap_cntr)
           THEN Call("erase_val", [NoArg EXCEPT !.val = v],
                     bubble_down(vec_erase(heap_cntr, it), it), FALSE)
           ELSE \E o \in EraseEndOutcomes(heap_cntr) :
                    Call("erase_val", [NoArg EXCEPT !.val = v],
                         IF o.died THEN o.h ELSE bubble_down(o.h, it), o.died)

\* slip: one bubble_down from first, as in erase(const_iterator), instead of heapify()
erase_range_one_sift(first, last) ==
    /\ Live
    /\ first \in 0..Len(heap_cntr)
    /\ last \in first..Len(heap_cntr)
    /\ LET h == vec_erase_range(heap_cntr, first, last)
       IN  Call("erase_range", [NoArg EXCEPT !.pos = first, !.last = last],
                bubble_down(h, first), FALSE)

erase_range(first, last) ==
    /\ Live
    /\ first \in 0..Len(heap_cntr)
    /\ last \in first..Len(heap_cntr)
    /\ LET h == vec_erase_range(heap_cntr, first, last)
       IN  Call("erase_range", [NoArg EXCEPT !.pos = first, !.last = last], heapify(h), FALSE)

\* a const member that hands back r and leaves the queue alone
Query(name, a, r) ==
    /\ op' = name
    /\ arg' = a
    /\ pre' = heap_cntr
    /\ res' = r
    /\ UNCHANGED <<heap_cntr, comp, ub, phase, fed, out, run, heap_cntr_u, sem_vars, da_vars>>

find_val(v) ==
    /\ Live
    /\ Query("find", [NoArg EXCEPT !.val = v], [NoRes EXCEPT !.it = find(heap_cntr, v)])

find_pred(p) ==
    /\ Live
    /\ Query("find_if", [NoArg EXCEPT !.pred = p], [NoRes EXCEPT !.it = find_if(heap_cntr, p)])

find_all_val(v) ==
    /\ Live
    /\ Query("find_all", [NoArg EXCEPT !.val = v],
             [NoRes EXCEPT !.its = find_all(heap_cntr, v)])

find_all_pred(p) ==
    /\ Live
    /\ Query("find_all_if", [NoArg EXCEPT !.pred = p],
             [NoRes EXCEPT !.its = find_all_if(heap_cntr, p)])

\* the loop of write_ordered on the copy tmp: while (!tmp.empty())
\* { _os << tmp.top(); tmp.dequeue(); }
RECURSIVE write_ordered_loop(_, _)
write_ordered_loop(tmp, os) ==
    IF ~empty(tmp) THEN write_ordered_loop(pop_top(tmp), Append(os, top(tmp))) ELSE os

\* write_ordered / operator<<: tmp is taken to be a copy of *this with the same
\* comparator (the source declares it priority_queue<value_type, _Pr>, which puts
\* the comparator in the container parameter)
write_ordered ==
    /\ Live
    /\ out' = write_ordered_loop(heap_cntr, <<>>)
    /\ op' = "write_ordered"
    /\ arg' = NoArg
    /\ pre' = heap_cntr
    /\ res' = NoRes
    /\ UNCHANGED <<heap_cntr, comp, ub, phase, fed, run, heap_cntr_u, sem_vars, da_vars>>

RECURSIVE SeqsUpTo(_)
SeqsUpTo(n) ==
    IF n = 0 THEN {<<>>}
    ELSE LET S == SeqsUpTo(n - 1)
         IN  S \cup {Append(s, v) : s \in {t \in S : Len(t) = n - 1}, v \in Values}

Containers == SeqsUpTo(MaxCtr)

\* swap(_other) with a queue constructed from container c by
\* priority_queue(compare, container); _other then goes out of scope, as in operator=
swap(c) ==
    /\ Live
    /\ Call("swap", NoArg, heapify(c), FALSE)

\* priority_queue(compare, container) for either comparator type; pre is the container
Init ==
    /\ comp \in {"less", "greater"}
    /\ \E c \in Containers : heap_cntr = heapify(c) /\ pre = c
    /\ ub = FALSE
    /\ op = "construct"
    /\ arg = NoArg
    /\ phase = "api"
    /\ fed = <<>>
    /\ out = <<>>
    /\ res = NoRes
    /\ run = NoRun
    /\ heap_cntr_u = <<>>
    /\ SemUnused
    /\ DaUnused

Next ==
    \/ \E v \in Values : enqueue(v)
    \/ \E v \in Values : emplace(v)
    \/ dequeue
    \/ clear
    \/ \E tgt \in Values, v \in Values : alter_pair(tgt, v)
    \/ \E pos \in 0..(MaxLen - 1), v \in Values : alter_pos(pos, v)
    \/ \E v \in Values, p \in Preds : alter_pred(v, p)
    \/ \E tgt \in Values, v \in Values : alter_all_pair(tgt, v)
    \/ \E v \in Values, p \in Preds : alter_all_pred(v, p)
    \/ \E pos \in 0..(MaxLen - 1) : erase_pos(pos)
    \/ \E v \in Values : erase_val(v)
    \/ \E first \in 0..MaxLen, last \in 0..MaxLen : erase_range(first, last)
    \/ \E c \in Containers : swap(c)
    \/ write_ordered
    \/ \E v \in Values : find_val(v)
    \/ \E p \in Preds : find_pred(p)
    \/ \E v \in Values : find_all_val(v)
    \/ \E p \in Preds : find_all_pred(p)
    \/ ret

Spec == Init /\ [][Next]_vars

\* ---- a client that only enqueues, emplaces and dequeues, from an empty queue ----

\* priority_queue(): the default arguments give an empty container
InitEmpty ==
    /\ comp \in {"less", "greater"}
    /\ heap_cntr = heapify(<<>>)
    /\ pre = <<>>
    /\ ub = FALSE
    /\ op = "construct"
    /\ arg = NoArg
    /\ phase = "api"
    /\ fed = <<>>
    /\ out = <<>>
    /\ res = NoRes
    /\ run = NoRun
    /\ heap_cntr_u = <<>>
    /\ SemUnused
    /\ DaUnused

NextQD ==
    \/ \E v \in Values : enqueue(v)
    \/ \E v \in Values : emplace(v)
    \/ dequeue
    \/ ret

SpecQD == InitEmpty /\ [][NextQD]_vars

\* ---- a client that enqueues a sequence and then reads top() and dequeues until empty ----

InitFill ==
    /\ comp \in {"less", "greater"}
    /\ heap_cntr = heapify(<<>>)
    /\ pre = <<>>
    /\ ub = FALSE
    /\ op = "none"
    /\ arg = NoArg
    /\ phase = "fill"
    /\ fed = <<>>
    /\ out = <<>>
    /\ res = NoRes
    /\ run = NoRun
    /\ heap_cntr_u = <<>>
    /\ SemUnused
    /\ DaUnused

fill_enqueue(v) ==
    /\ phase = "fill"
    /\ Len(heap_cntr) < MaxLen
    /\ LET h == push_back(heap_cntr, v)
       IN  heap_cntr' = bubble_up(h, size(h) - 1)
    /\ fed' = Append(fed, v)
    /\ UNCHANGED <<comp, ub, op, arg, pre, phase, out, res, run, heap_cntr_u, sem_vars, da_vars>>

start_drain ==
    /\ phase = "fill"
    /\ phase' = "drain"
    /\ UNCHANGED <<heap_cntr, comp, ub, op, arg, pre, fed, out, res, run, heap_cntr_u, sem_vars, da_vars>>

\* while (!empty()) { read top(); dequeue(); }
drain_step ==
    /\ phase = "drain"
    /\ ~empty(heap_cntr)
    /\ out' = Append(out, top(heap_cntr))
    /\ heap_cntr' = pop_top(heap_cntr)
    /\ UNCHANGED <<comp, ub, op, arg, pre, phase, fed, res, run, heap_cntr_u, sem_vars, da_vars>>

NextDrain ==
    \/ \E v \in Values : fill_enqueue(v)
    \/ start_drain
    \/ drain_step

SpecDrain == InitFill /\ [][NextDrain]_vars

\* ---- crsc::unstable_priority_queue: the heap engine is public and storage is writable ----

MLive == ~ub /\ phase = "manual" /\ op = "none"

\* *(begin() + pos) = v, or top() = v for pos = 0: a raw write, no re-ordering
u_write(pos, v) ==
    /\ MLive
    /\ pos \in 0..(Len(heap_cntr) - 1)
    /\ Call("u_write", [NoArg EXCEPT !.pos = pos, !.val = v],
            [heap_cntr EXCEPT ![pos + 1] = v], FALSE)

u_heapify ==
    /\ MLive
    /\ Call("heapify", NoArg, heapify(heap_cntr), FALSE)

u_bubble_down(pos) ==
    /\ MLive
    /\ pos \in 0..(Len(heap_cntr) - 1)
    /\ Call("bubble_down", [NoArg EXCEPT !.pos = pos], bubble_down(heap_cntr, pos), FALSE)

u_bubble_up(pos) ==
    /\ MLive
    /\ pos \in 0..(Len(heap_cntr) - 1)
    /\ Call("bubble_up", [NoArg EXCEPT !.pos = pos], bubble_up(heap_cntr, pos), FALSE)

u_enqueue(v) ==
    /\ MLive
    /\ Len(heap_cntr) < MaxLen
    /\ LET h == push_back(heap_cntr, v)
       IN  Call("u_enqueue", [NoArg EXCEPT !.val = v], bubble_up(h, size(h) - 1), FALSE)

\* slip: the last element is popped without being assigned to position 0 first
u_dequeue_no_assign ==
    /\ MLive
    /\ LET heap_size == Len(heap_cntr)
           h == IF heap_size = 0 THEN heap_cntr
                ELSE bubble_down(pop_back(heap_cntr), 0)
       IN  Call("u_dequeue", NoArg, h, FALSE)

\* heap_cntr[0] = heap_cntr[heap_size - 1]; pop_back(); bubble_down(0)
u_dequeue ==
    /\ MLive
    /\ LET heap_size == Len(heap_cntr)
           h == IF heap_size = 0 THEN heap_cntr
                ELSE bubble_down(
                        pop_back([heap_cntr EXCEPT ![1] = heap_cntr[heap_size]]), 0)
       IN  Call("u_dequeue", NoArg, h, FALSE)

\* unstable_priority_queue(first, last, compare, container): the range is appended
\* to the container, then heapify(); an empty range is the container constructor
InitManual ==
    /\ comp \in {"less", "greater"}
    /\ \E c \in Containers, r \in Containers :
            heap_cntr = heapify(c \o r) /\ pre = c \o r
    /\ ub = FALSE
    /\ op = "construct"
    /\ arg = NoArg
    /\ phase = "manual"
    /\ fed = <<>>
    /\ out = <<>>
    /\ res = NoRes
    /\ run = NoRun
    /\ heap_cntr_u = <<>>
    /\ SemUnused
    /\ DaUnused

NextManual ==
    \/ \E pos \in 0..(MaxLen - 1), v \in Values : u_write(pos, v)
    \/ u_heapify
    \/ \E pos \in 0..(MaxLen - 1) : u_bubble_down(pos)
    \/ \E pos \in 0..(MaxLen - 1) : u_bubble_up(pos)
    \/ \E v \in Values : u_enqueue(v)
    \/ u_dequeue
    \/ ret

SpecManual == InitManual /\ [][NextManual]_vars

\* ---- the heap engine of the manual heap, one invocation at a time ----
\* run.name is the engine routine that runs, run.path holds the _pos of every
\* invocation of it, the recursive ones included; run.done is TRUE once the innermost invocation has
\* returned; run.i is the loop variable of heapify() at its next test of i > -1

SLive == ~ub /\ phase = "sift" /\ op = "none"

Last(s) == s[Len(s)]

\* *(begin() + pos) = v: a raw write, no re-ordering
raw_write(pos, v) ==
    /\ SLive
    /\ pos \in 0..(Len(heap_cntr) - 1)
    /\ heap_cntr' = [heap_cntr EXCEPT ![pos + 1] = v]
    /\ UNCHANGED <<comp, ub, op, arg, pre, phase, fed, out, res, run, heap_cntr_u, sem_vars, da_vars>>

\* the client calls bubble_down(pos) or bubble_up(pos) with pos < size()
SiftCall(name, pos) ==
    /\ op' = name
    /\ arg' = [NoArg EXCEPT !.pos = pos]
    /\ pre' = heap_cntr
    /\ run' = [name |-> name, path |-> <<pos>>, done |-> FALSE, i |-> -1]
    /\ UNCHANGED <<heap_cntr, comp, ub, phase, fed, out, res, heap_cntr_u, sem_vars, da_vars>>

call_bubble_down(pos) ==
    /\ SLive
    /\ pos \in 0..(Len(heap_cntr) - 1)
    /\ SiftCall("bubble_down", pos)

call_bubble_up(pos) ==
    /\ SLive
    /\ pos \in 0..(Len(heap_cntr) - 1)
    /\ SiftCall("bubble_up", pos)

\* the client calls heapify(): int i = heap_cntr.size() - 1
call_heapify ==
    /\ SLive
    /\ op' = "heapify"
    /\ arg' = NoArg
    /\ pre' = heap_cntr
    /\ run' = [name |-> "none", path |-> <<>>, done |-> TRUE, i |-> Len(heap_cntr) - 1]
    /\ UNCHANGED <<heap_cntr, comp, ub, phase, fed, out, res, heap_cntr_u, sem_vars, da_vars>>

\* for (...; i > -1; --i) bubble_down(i): the next iteration starts
heapify_loop ==
    /\ op = "heapify"
    /\ run.done
    /\ run.i > -1
    /\ run' = [name |-> "bubble_down", path |-> <<run.i>>, done |-> FALSE, i |-> run.i - 1]
    /\ UNCHANGED <<heap_cntr, comp, ub, op, arg, pre, phase, fed, out, res, heap_cntr_u, sem_vars, da_vars>>

\* slip: the right child wins a tie
min_pos_right_on_tie(h, _pos) ==
    LET heap_size == Len(h)
        left_child == 2 * _pos + 1
        right_child == 2 * _pos + 2
        m1 == IF Comp(At(h, _pos), At(h, left_child)) THEN left_child ELSE _pos
    IN  IF right_child < heap_size /\ ~Comp(At(h, right_child), At(h, m1))
        THEN right_child ELSE m1

\* the child bubble_down(_pos) swaps with, or _pos itself when it swaps with none
min_pos(h, _pos) ==
    LET heap_size == Len(h)
        left_child == 2 * _pos + 1
        right_child == 2 * _pos + 2
        m1 == IF Comp(At(h, _pos), At(h, left_child)) THEN left_child ELSE _pos
    IN  IF right_child < heap_size /\ Comp(At(h, m1), At(h, right_child))
        THEN right_child ELSE m1

\* slip: the swap is made but the recursive call bubble_down(min_pos) is missing
bubble_down_step_no_recursion ==
    /\ op \in {"bubble_down", "heapify"}
    /\ ~run.done
    /\ LET _pos == Last(run.path)
       IN  IF 2 * _pos + 1 >= Len(heap_cntr)
           THEN /\ run' = [run EXCEPT !.done = TRUE]
                /\ UNCHANGED heap_cntr
           ELSE IF min_pos(heap_cntr, _pos) # _pos
                THEN /\ heap_cntr' = std_swap(heap_cntr, _pos, min_pos(heap_cntr, _pos))
                     /\ run' = [run EXCEPT !.done = TRUE]
                ELSE /\ run' = [run EXCEPT !.done = TRUE]
                     /\ UNCHANGED heap_cntr
    /\ UNCHANGED <<comp, ub, op, arg, pre, phase, fed, out, res, heap_cntr_u, sem_vars, da_vars>>

\* one invocation of bubble_down(_pos), up to its recursive call or its return
bubble_down_step ==
    /\ op \in {"bubble_down", "heapify"}
    /\ ~run.done
    /\ LET _pos == Last(run.path)
       IN  IF 2 * _pos + 1 >= Len(heap_cntr)
           THEN /\ run' = [run EXCEPT !.done = TRUE]
                /\ UNCHANGED heap_cntr
           ELSE IF min_pos(heap_cntr, _pos) # _pos
                THEN /\ heap_cntr' = std_swap(heap_cntr, _pos, min_pos(heap_cntr, _pos))
                     /\ run' = [run EXCEPT !.path = Append(@, min_pos(heap_cntr, _pos))]
                ELSE /\ run' = [run EXCEPT !.done = TRUE]
                     /\ UNCHANGED heap_cntr
    /\ UNCHANGED <<comp, ub, op, arg, pre, phase, fed, out, res, heap_cntr_u, sem_vars, da_vars>>

\* slip: after the swap the recursive call is bubble_up(_pos), not bubble_up(parent)
bubble_up_step_same_pos ==
    /\ op = "bubble_up"
    /\ ~run.done
    /\ LET _pos == Last(run.path)
           parent == (_pos - 1) \div 2
       IN  IF _pos # 0 /\ Comp(At(heap_cntr, parent), At(heap_cntr, _pos))
           THEN /\ heap_cntr' = std_swap(heap_cntr, _pos, parent)
                /\ run' = [run EXCEPT !.path = Append(@, _pos)]
           ELSE /\ run' = [run EXCEPT !.done = TRUE]
                /\ UNCHANGED heap_cntr
    /\ UNCHANGED <<comp, ub, op, arg, pre, phase, fed, out, res, heap_cntr_u, sem_vars, da_vars>>

\* one invocation of bubble_up(_pos), up to its recursive call or its return
bubble_up_step ==
    /\ op = "bubble_up"
    /\ ~run.done
    /\ LET _pos == Last(run.path)
           parent == (_pos - 1) \div 2
       IN  IF _pos # 0 /\ Comp(At(heap_cntr, parent), At(heap_cntr, _pos))
           THEN /\ heap_cntr' = std_swap(heap_cntr, _pos, parent)
                /\ run' = [run EXCEPT !.path = Append(@, parent)]
           ELSE /\ run' = [run EXCEPT !.done = TRUE]
                /\ UNCHANGED heap_cntr
    /\ UNCHANGED <<comp, ub, op, arg, pre, phase, fed, out, res, heap_cntr_u, sem_vars, da_vars>>

\* the call in progress has reached its return
Returned == op # "none" /\ run.done /\ (op = "heapify" => run.i <= -1)

\* the call returns to the client
sift_ret ==
    /\ phase = "sift"
    /\ Returned
    /\ op' = "none"
    /\ arg' = NoArg
    /\ pre' = <<>>
    /\ run' = NoRun
    /\ UNCHANGED <<heap_cntr, comp, ub, phase, fed, out, res, heap_cntr_u, sem_vars, da_vars>>

\* unstable_priority_queue(first, last, compare, container), as in InitManual
InitSift ==
    /\ comp \in {"less", "greater"}
    /\ \E c \in Containers, r \in Containers : heap_cntr = heapify(c \o r)
    /\ pre = <<>>
    /\ ub = FALSE
    /\ op = "none"
    /\ arg = NoArg
    /\ phase = "sift"
    /\ fed = <<>>
    /\ out = <<>>
    /\ res = NoRes
    /\ run = NoRun
    /\ heap_cntr_u = <<>>
    /\ SemUnused
    /\ DaUnused

SiftStep == bubble_down_step \/ bubble_up_step \/ heapify_loop

NextSift ==
    \/ \E pos \in 0..(MaxLen - 1), v \in Values : raw_write(pos, v)
    \/ \E pos \in 0..(MaxLen - 1) : call_bubble_down(pos)
    \/ \E pos \in 0..(MaxLen - 1) : call_bubble_up(pos)
    \/ call_heapify
    \/ bubble_down_step
    \/ bubble_up_step
    \/ heapify_loop
    \/ sift_ret

SpecSift == InitSift /\ [][NextSift]_vars

\* no invocation waits for ever: the scheduler runs the thread that is inside the call
SpecSiftFair == SpecSift /\ WF_vars(SiftStep)

\* ---- a program that uses one of the two queues ----

InitEither == Init \/ InitManual

NextEither == Next \/ NextManual

SpecEither == InitEither /\ [][NextEither]_vars

\* ---- a safe queue and a manual heap that are given the same calls ----
\* heap_cntr is the storage of the priority_queue, heap_cntr_u the storage of the
\* unstable_priority_queue; the client writes nothing through the manual heap's
\* iterators

\* unstable_priority_queue::enqueue
uq_enqueue(h, v) ==
    LET g == push_back(h, v)
    IN  bubble_up(g, size(g) - 1)

\* slip: heap_cntr[heap_size - 1] = heap_cntr[0], the assignment the other way round
uq_dequeue_assign_reversed(h) ==
    LET heap_size == Len(h)
    IN  IF heap_size = 0 THEN h
        ELSE bubble_down(pop_back([h EXCEPT ![heap_size] = h[1]]), 0)

\* unstable_priority_queue::dequeue: assign the last element to the top, pop_back
uq_dequeue(h) ==
    LET heap_size == Len(h)
    IN  IF heap_size = 0 THEN h
        ELSE bubble_down(pop_back([h EXCEPT ![1] = h[heap_size]]), 0)

\* unstable_priority_queue::clear
uq_clear(h) == <<>>

\* unstable_priority_queue::erase(pos)
uq_erase(h, pos) == bubble_down(vec_erase(h, pos), pos)

\* unstable_priority_queue::erase(first, last)
uq_erase_range(h, first, last) == heapify(vec_erase_range(h, first, last))

\* one call made on both queues
PairCall(name, a, h, hu) ==
    /\ ~ub
    /\ phase = "pair"
    /\ op = "none"
    /\ heap_cntr' = h
    /\ heap_cntr_u' = hu
    /\ op' = name
    /\ arg' = a
    /\ pre' = heap_cntr
    /\ UNCHANGED <<comp, ub, phase, fed, out, res, run, sem_vars, da_vars>>

pair_enqueue(v) ==
    /\ Len(heap_cntr) < MaxLen
    /\ LET h == push_back(heap_cntr, v)
       IN  PairCall("enqueue", [NoArg EXCEPT !.val = v],
                    bubble_up(h, size(h) - 1), uq_enqueue(heap_cntr_u, v))

pair_dequeue ==
    /\ phase = "pair"
    /\ PairCall("dequeue", NoArg, pop_top(heap_cntr), uq_dequeue(heap_cntr_u))

pair_clear ==
    /\ phase = "pair"
    /\ PairCall("clear", NoArg, <<>>, uq_clear(heap_cntr_u))

\* the same position is erased in both: the client names it in each queue
pair_erase(pos) ==
    /\ pos \in 0..(Len(heap_cntr) - 1)
    /\ pos \in 0..(Len(heap_cntr_u) - 1)
    /\ PairCall("erase_pos", [NoArg EXCEPT !.pos = pos],
                bubble_down(vec_erase(heap_cntr, pos), pos), uq_erase(heap_cntr_u, pos))

pair_erase_range(first, last) ==
    /\ first \in 0..Len(heap_cntr)
    /\ last \in first..Len(heap_cntr)
    /\ first \in 0..Len(heap_cntr_u)
    /\ last \in first..Len(heap_cntr_u)
    /\ PairCall("erase_range", [NoArg EXCEPT !.pos = first, !.last = last],
                heapify(vec_erase_range(heap_cntr, first, last)),
                uq_erase_range(heap_cntr_u, first, last))

\* both calls have returned
pair_ret ==
    /\ phase = "pair"
    /\ op # "none"
    /\ op' = "none"
    /\ arg' = NoArg
    /\ pre' = <<>>
    /\ UNCHANGED <<heap_cntr, heap_cntr_u, comp, ub, phase, fed, out, res, run,
                   sem_vars, da_vars>>

\* priority_queue(compare, container) and unstable_priority_queue(compare, container)
\* with the same comparator type and the same container
InitPair ==
    /\ comp \in {"less", "greater"}
    /\ \E c \in Containers :
            heap_cntr = heapify(c) /\ heap_cntr_u = heapify(c) /\ pre = c
    /\ ub = FALSE
    /\ op = "construct"
    /\ arg = NoArg
    /\ phase = "pair"
    /\ fed = <<>>
    /\ out = <<>>
    /\ res = NoRes
    /\ run = NoRun
    /\ SemUnused
    /\ DaUnused

NextPair ==
    \/ \E v \in Values : pair_enqueue(v)
    \/ pair_dequeue
    \/ pair_clear
    \/ \E pos \in 0..(MaxLen - 1) : pair_erase(pos)
    \/ \E first \in 0..MaxLen, last \in 0..MaxLen : pair_erase_range(first, last)
    \/ pair_ret

SpecPair == InitPair /\ [][NextPair]_vars

\* ---- crsc::semaphore used by concurrent threads ----

Threads == 1..NThreads

\* a run that uses no priority queue
PqUnused ==
    /\ heap_cntr = <<>>
    /\ comp = "less"
    /\ ub = FALSE
    /\ op = "none"
    /\ arg = NoArg
    /\ pre = <<>>
    /\ phase = "none"
    /\ fed = <<>>
    /\ out = <<>>
    /\ res = NoRes
    /\ run = NoRun
    /\ heap_cntr_u = <<>>

\* semaphore(_count)
InitSem ==
    /\ sem_init \in 0..MaxInit
    /\ count = sem_init
    /\ mut = 0
    /\ tpc = [t \in Threads |-> "idle"]
    /\ notified = 0
    /\ waited = 0
    /\ calls = 0
    /\ PqUnused
    /\ DaUnused

Goto(t, label) == tpc' = [tpc EXCEPT ![t] = label]

\* a thread calls notify()
notify_call(t) ==
    /\ tpc[t] = "idle"
    /\ calls < MaxCalls
    /\ calls' = calls + 1
    /\ Goto(t, "n_lock")
    /\ UNCHANGED <<count, mut, sem_init, notified, waited, pq_vars, da_vars>>

\* std::unique_lock<std::mutex> lock(mut)
notify_lock(t) ==
    /\ tpc[t] = "n_lock"
    /\ mut = 0
    /\ mut' = t
    /\ Goto(t, "n_inc")
    /\ UNCHANGED <<count, sem_init, notified, waited, calls, pq_vars, da_vars>>

\* ++count
notify_inc(t) ==
    /\ tpc[t] = "n_inc"
    /\ count' = count + 1
    /\ Goto(t, "n_signal")
    /\ UNCHANGED <<mut, sem_init, notified, waited, calls, pq_vars, da_vars>>

\* slip: cv.notify_one() is missing
notify_signal_missing(t) ==
    /\ tpc[t] = "n_signal"
    /\ Goto(t, "n_unlock")
    /\ UNCHANGED <<count, mut, sem_init, notified, waited, calls, pq_vars, da_vars>>

\* cv.notify_one(): one of the threads blocked on cv, if any, is woken
notify_signal(t) ==
    /\ tpc[t] = "n_signal"
    /\ IF \E u \in Threads : tpc[u] = "w_blocked"
       THEN \E u \in Threads :
                /\ tpc[u] = "w_blocked"
                /\ tpc' = [tpc EXCEPT ![t] = "n_unlock", ![u] = "w_woken"]
       ELSE Goto(t, "n_unlock")
    /\ UNCHANGED <<count, mut, sem_init, notified, waited, calls, pq_vars, da_vars>>

\* lock goes out of scope and notify() returns
notify_return(t) ==
    /\ tpc[t] = "n_unlock"
    /\ mut' = 0
    /\ notified' = notified + 1
    /\ Goto(t, "idle")
    /\ UNCHANGED <<count, sem_init, waited, calls, pq_vars, da_vars>>

\* a thread calls wait()
wait_call(t) ==
    /\ tpc[t] = "idle"
    /\ calls < MaxCalls
    /\ calls' = calls + 1
    /\ Goto(t, "w_lock")
    /\ UNCHANGED <<count, mut, sem_init, notified, waited, pq_vars, da_vars>>

\* std::unique_lock<std::mutex> lock(mut)
wait_lock(t) ==
    /\ tpc[t] = "w_lock"
    /\ mut = 0
    /\ mut' = t
    /\ Goto(t, "w_test")
    /\ UNCHANGED <<count, sem_init, notified, waited, calls, pq_vars, da_vars>>

\* cv.wait(lock, pred): while (!pred()) wait(lock); wait(lock) releases the mutex
\* and blocks the thread
wait_test(t) ==
    /\ tpc[t] = "w_test"
    /\ IF count > 0
       THEN Goto(t, "w_dec") /\ UNCHANGED mut
       ELSE Goto(t, "w_blocked") /\ mut' = 0
    /\ UNCHANGED <<count, sem_init, notified, waited, calls, pq_vars, da_vars>>

\* a spurious wakeup, which std::condition_variable::wait allows
wait_spurious(t) ==
    /\ tpc[t] = "w_blocked"
    /\ Goto(t, "w_woken")
    /\ UNCHANGED <<count, mut, sem_init, notified, waited, calls, pq_vars, da_vars>>

\* slip: if (count == 0) cv.wait(lock); the predicate is not tested again
wait_relock_no_retest(t) ==
    /\ tpc[t] = "w_woken"
    /\ mut = 0
    /\ mut' = t
    /\ Goto(t, "w_dec")
    /\ UNCHANGED <<count, sem_init, notified, waited, calls, pq_vars, da_vars>>

\* the woken thread takes the mutex again and goes back to the predicate
wait_relock(t) ==
    /\ tpc[t] = "w_woken"
    /\ mut = 0
    /\ mut' = t
    /\ Goto(t, "w_test")
    /\ UNCHANGED <<count, sem_init, notified, waited, calls, pq_vars, da_vars>>

\* --count
wait_dec(t) ==
    /\ tpc[t] = "w_dec"
    /\ count' = count - 1
    /\ Goto(t, "w_unlock")
    /\ UNCHANGED <<mut, sem_init, notified, waited, calls, pq_vars, da_vars>>

\* lock goes out of scope and wait() returns
wait_return(t) ==
    /\ tpc[t] = "w_unlock"
    /\ mut' = 0
    /\ waited' = waited + 1
    /\ Goto(t, "idle")
    /\ UNCHANGED <<count, sem_init, notified, calls, pq_vars, da_vars>>

NextSem ==
    \E t \in Threads :
        \/ notify_call(t)
        \/ notify_lock(t)
        \/ notify_inc(t)
        \/ notify_signal(t)
        \/ notify_return(t)
        \/ wait_call(t)
        \/ wait_lock(t)
        \/ wait_test(t)
        \/ wait_spurious(t)
        \/ wait_relock(t)
        \/ wait_dec(t)
        \/ wait_return(t)

SpecSem == InitSem /\ [][NextSem]_vars

\* a step of thread t that takes the mutex
SemLock(t) == notify_lock(t) \/ wait_lock(t) \/ wait_relock(t)

\* a step of thread t that needs nothing from another thread
SemRun(t) ==
    \/ notify_inc(t)
    \/ notify_signal(t)
    \/ notify_return(t)
    \/ wait_test(t)
    \/ wait_dec(t)
    \/ wait_return(t)

\* fair scheduling: a running thread goes on, and a thread that finds the mutex
\* free from some point on gets it; nothing makes a client call, and nothing makes
\* a spurious wakeup happen
SpecSemFair ==
    SpecSem /\ \A t \in Threads : WF_vars(SemRun(t)) /\ WF_vars(SemLock(t))

\* ---- crsc::dynamic_array ----
\* arr holds the constructed elements arr[0 .. arr_size-1]; 0 stands for value_type()

\* the container as one value
Da == [arr |-> arr, arr_size |-> arr_size, arr_capacity |-> arr_capacity]

DaNew(cnt, v) ==
    [arr |-> [i \in 1..cnt |-> v], arr_size |-> cnt, arr_capacity |-> cnt]

NoDaOp == [name |-> "none", n |-> 0, v |-> 0, pre |-> DaNew(0, 0)]

\* bool empty() const noexcept { return arr_size; }
da_empty(d) == d.arr_size # 0

da_size(d) == d.arr_size

da_capacity(d) == d.arr_capacity

\* reallocate(new_cap): the first tmp_rows elements move to the new storage
da_reallocate(d, new_cap) ==
    LET tmp_rows == IF new_cap > d.arr_capacity THEN d.arr_capacity ELSE new_cap
        kept == IF Len(d.arr) < tmp_rows THEN Len(d.arr) ELSE tmp_rows
    IN  [d EXCEPT !.arr = SubSeq(d.arr, 1, kept), !.arr_capacity = new_cap]

\* push_back(_val)
da_push_back(d, v) ==
    LET e == IF d.arr_size = d.arr_capacity
             THEN da_reallocate(d, IF d.arr_capacity # 0
                                   THEN d.arr_capacity * 2 ELSE FirstCapacity)
             ELSE d
    IN  [e EXCEPT !.arr = Append(e.arr, v), !.arr_size = e.arr_size + 1]

\* pop_back()
da_pop_back(d) ==
    [d EXCEPT !.arr = SubSeq(d.arr, 1, Len(d.arr) - 1), !.arr_size = d.arr_size - 1]

RECURSIVE da_push_n(_, _, _)
da_push_n(d, n, v) == IF n = 0 THEN d ELSE da_push_n(da_push_back(d, v), n - 1, v)

RECURSIVE da_pop_n(_, _)
da_pop_n(d, n) == IF n = 0 THEN d ELSE da_pop_n(da_pop_back(d), n - 1)

\* resize(count) and resize(count, _val)
da_resize(d, cnt, v) ==
    IF cnt = d.arr_size THEN d
    ELSE IF cnt > d.arr_size
         THEN da_push_n(da_reallocate(d, cnt), cnt - d.arr_size, v)
         ELSE da_pop_n(d, d.arr_size - cnt)

\* clear()
da_clear(d) == [d EXCEPT !.arr = <<>>, !.arr_size = 0]

\* slip: reallocate(new_cap) without the test new_cap > arr_capacity
da_reserve_always(d, new_cap) == da_reallocate(d, new_cap)

\* reserve(new_cap)
da_reserve(d, new_cap) ==
    IF new_cap > d.arr_capacity THEN da_reallocate(d, new_cap) ELSE d

\* std::swap(arr[i], arr[j]) on 0-based indices
da_swap(a, i, j) == [a EXCEPT ![i + 1] = a[j + 1], ![j + 1] = a[i + 1]]

\* while (pos_index < arr_size - 1) { swap(arr[pos_index], arr[pos_index + 1]); ++pos_index; }
RECURSIVE da_shift_to_end(_, _)
da_shift_to_end(a, pos_index) ==
    IF pos_index < Len(a) - 1
    THEN da_shift_to_end(da_swap(a, pos_index, pos_index + 1), pos_index + 1)
    ELSE a

\* erase(pos): the element is swapped up to the end, then pop_back()
da_erase(d, pos) == da_pop_back([d EXCEPT !.arr = da_shift_to_end(d.arr, pos)])

\* while (iter_index > pos_index) { swap(arr[iter_index], arr[iter_index - 1]); --iter_index; }
RECURSIVE da_shift_from_end(_, _, _)
da_shift_from_end(a, iter_index, pos_index) ==
    IF iter_index > pos_index
    THEN da_shift_from_end(da_swap(a, iter_index, iter_index - 1), iter_index - 1, pos_index)
    ELSE a

\* insert(pos, _val): push_back(_val), then the new element is swapped down to pos
da_insert(d, pos, v) ==
    LET e == da_push_back(d, v)
    IN  [e EXCEPT !.arr = da_shift_from_end(e.arr, d.arr_size, pos)]

DaCall(name, n, v, d) ==
    /\ arr' = d.arr
    /\ arr_size' = d.arr_size
    /\ arr_capacity' = d.arr_capacity
    /\ da_op' = [name |-> name, n |-> n, v |-> v, pre |-> Da]
    /\ UNCHANGED <<pq_vars, sem_vars>>

DaLive == da_op.name = "none"

\* dynamic_array(), dynamic_array(count), dynamic_array(count, _val)
InitDa ==
    /\ \E cnt \in 0..MaxCount, v \in {0} \cup Values :
        /\ arr = DaNew(cnt, v).arr
        /\ arr_size = cnt
        /\ arr_capacity = cnt
        /\ da_op = [NoDaOp EXCEPT !.name = "construct", !.n = cnt, !.v = v]
    /\ PqUnused
    /\ SemUnused

da_push_back_call(v) ==
    /\ DaLive
    /\ arr_size < MaxLen
    /\ da_push_back(Da, v).arr_capacity <= MaxCap
    /\ DaCall("push_back", 0, v, da_push_back(Da, v))

\* What is read through _val after reallocate() has freed the storage _val
\* refers to (undefined behaviour): any value.
DanglingReads == {0} \cup Values

\* push_back(arr[i]): _val refers to an element of the array itself; when the
\* array is full, reallocate() deletes the storage before _val is copied
da_push_back_self_call(i) ==
    /\ DaLive
    /\ i \in 0..(arr_size - 1)
    /\ arr_size < MaxLen
    /\ da_push_back(Da, arr[i + 1]).arr_capacity <= MaxCap
    /\ \E g \in (IF arr_size = arr_capacity THEN DanglingReads ELSE {arr[i + 1]}) :
            DaCall("push_back", i, arr[i + 1], da_push_back(Da, g))

\* the documentation makes pop_back on an empty array undefined: the client
\* calls it on a non-empty array only
da_pop_back_call ==
    /\ DaLive
    /\ arr_size > 0
    /\ DaCall("pop_back", 0, 0, da_pop_back(Da))

da_resize_call(cnt) ==
    /\ DaLive
    /\ DaCall("resize", cnt, 0, da_resize(Da, cnt, 0))

da_resize_val_call(cnt, v) ==
    /\ DaLive
    /\ DaCall("resize_val", cnt, v, da_resize(Da, cnt, v))

da_clear_call ==
    /\ DaLive
    /\ DaCall("clear", 0, 0, da_clear(Da))

da_reserve_call(new_cap) ==
    /\ DaLive
    /\ DaCall("reserve", new_cap, 0, da_reserve(Da, new_cap))

\* insert(pos, _val) with cbegin() <= pos <= cend()
da_insert_call(pos, v) ==
    /\ DaLive
    /\ pos \in 0..arr_size
    /\ arr_size < MaxLen
    /\ da_push_back(Da, v).arr_capacity <= MaxCap
    /\ DaCall("insert", pos, v, da_insert(Da, pos, v))

\* erase(pos) with pos dereferenceable, hence on a non-empty array
da_erase_call(pos) ==
    /\ DaLive
    /\ pos \in 0..(arr_size - 1)
    /\ DaCall("erase", pos, 0, da_erase(Da, pos))

\* the call returns
da_ret ==
    /\ da_op.name # "none"
    /\ da_op' = NoDaOp
    /\ UNCHANGED <<arr, arr_size, arr_capacity, pq_vars, sem_vars>>

NextDa ==
    \/ \E v \in Values : da_push_back_call(v)
    \/ \E i \in 0..(MaxLen - 1) : da_push_back_self_call(i)
    \/ da_pop_back_call
    \/ \E cnt \in 0..MaxCount : da_resize_call(cnt)
    \/ \E cnt \in 0..MaxCount, v \in Values : da_resize_val_call(cnt, v)
    \/ da_clear_call
    \/ \E new_cap \in 0..MaxCap : da_reserve_call(new_cap)
    \/ \E pos \in 0..MaxLen, v \in Values : da_insert_call(pos, v)
    \/ \E pos \in 0..MaxLen : da_erase_call(pos)
    \/ da_ret

SpecDa == InitDa /\ [][NextDa]_vars

\* ---- properties ----

\* no child outranks its parent
HeapValid(h) ==
    \A i \in 0..(Len(h) - 1) :
        \A c \in {2 * i + 1, 2 * i + 2} :
            c < Len(h) => ~Comp(At(h, i), At(h, c))

Count(h, v) == Cardinality({i \in 1..Len(h) : h[i] = v})

SameBag(a, b) == \A v \in Values : Count(a, v) = Count(b, v)

Elems(h) == {h[i] : i \in 1..Len(h)}

\* no stored element outranks x
Highest(x, h) == \A i \in 0..(Len(h) - 1) : ~Comp(x, At(h, i))

\* the last public call is one of the single-element or bulk alter calls
IsAlter == op \in {"alter_pair", "alter_pos", "alter_pred", "alter_all_pair", "alter_all_pred"}

\* C1: after every public mutating call of the safe queue the heap invariant
\* holds: no child outranks its parent.
C1_HeapInvariant == HeapValid(heap_cntr)

\* C2: after any run of enqueue/emplace/dequeue from an empty queue that leaves
\* the queue non-empty, top() is H[0] and no stored element outranks it: the
\* maximum for std::less, the minimum for std::greater.
C2_TopIsHighest ==
    ~empty(heap_cntr) =>
        /\ top(heap_cntr) = heap_cntr[1]
        /\ Highest(top(heap_cntr), heap_cntr)
        /\ comp = "less" => \A x \in Elems(heap_cntr) : x <= top(heap_cntr)
        /\ comp = "greater" => \A x \in Elems(heap_cntr) : x >= top(heap_cntr)

C2_Witness ==
    /\ op = "dequeue"
    /\ Len(heap_cntr) >= 3
    /\ Cardinality(Elems(heap_cntr)) >= 2
    /\ heap_cntr[Len(heap_cntr)] = top(heap_cntr)

\* C3: enqueuing a sequence into an empty queue and then reading top() and
\* dequeuing until empty emits exactly the enqueued multiset, and no emitted
\* element is outranked by a later emitted one.
C3_DrainSorted ==
    phase = "drain" =>
        /\ \A i \in 1..Len(out) : \A j \in (i + 1)..Len(out) : ~Comp(out[i], out[j])
        /\ empty(heap_cntr) => Len(out) = Len(fed) /\ SameBag(out, fed)

C3_Witness ==
    /\ phase = "drain"
    /\ empty(heap_cntr)
    /\ Len(out) >= 4
    /\ Cardinality(Elems(out)) >= 2
    /\ out # fed

\* C4: size() changes by exactly the number of elements each call adds or
\* removes: +1 for enqueue and emplace, -1 for dequeue (0 stays 0), -1 for
\* erase(position) and erase(value) of a present value, -(last - first) for
\* erase(first, last), 0 for alter and alter_all, and clear gives 0.
C4_SizeDelta ==
    /\ op \in {"enqueue", "emplace"} => size(heap_cntr) = size(pre) + 1
    /\ op = "dequeue" =>
        size(heap_cntr) = IF size(pre) = 0 THEN 0 ELSE size(pre) - 1
    /\ op = "erase_pos" => size(heap_cntr) = size(pre) - 1
    /\ (op = "erase_val" /\ arg.val \in Elems(pre)) => size(heap_cntr) = size(pre) - 1
    /\ op = "erase_range" => size(heap_cntr) = size(pre) - (arg.last - arg.pos)
    /\ IsAlter => size(heap_cntr) = size(pre)
    /\ op = "clear" => size(heap_cntr) = 0

C4_Witness ==
    /\ op = "erase_range"
    /\ arg.last - arg.pos >= 2
    /\ arg.pos >= 1
    /\ size(heap_cntr) >= 2

\* C5: erase(position) on a valid heap with a valid position removes exactly
\* the element at that position and leaves the heap invariant intact.
C5_ErasePosition ==
    (op = "erase_pos" /\ HeapValid(pre)) =>
        /\ size(heap_cntr) = size(pre) - 1
        /\ SameBag(heap_cntr, vec_erase(pre, arg.pos))
        /\ HeapValid(heap_cntr)

\* C6: erase(value) with value equal to the top of a valid heap removes one
\* instance of it; afterwards the heap invariant holds and top() is a highest
\* element of what remains.
C6_EraseTopValue ==
    (op = "erase_val" /\ ~empty(pre) /\ HeapValid(pre) /\ arg.val = top(pre)) =>
        /\ ~ub
        /\ size(heap_cntr) = size(pre) - 1
        /\ SameBag(heap_cntr, vec_erase(pre, 0))
        /\ HeapValid(heap_cntr)
        /\ ~empty(heap_cntr) => Highest(top(heap_cntr), heap_cntr)

\* C7: erase(value) with a value that is not stored is a silent no-op: nothing
\* goes wrong and the stored sequence is unchanged.
C7_EraseAbsentValue ==
    (op = "erase_val" /\ arg.val \notin Elems(pre)) =>
        /\ ~ub
        /\ heap_cntr = pre

\* C8: alter(pair) with a target that is not stored, and alter(value, predicate)
\* with a predicate no element satisfies, leave the stored sequence unchanged
\* and raise nothing.
C8_AlterAbsent ==
    /\ (op = "alter_pair" /\ arg.tgt \notin Elems(pre)) => (~ub /\ heap_cntr = pre)
    /\ (op = "alter_pred" /\ \A x \in Elems(pre) : ~TestPred(arg.pred, x)) =>
            (~ub /\ heap_cntr = pre)

C8_Witness ==
    /\ op = "alter_pair"
    /\ arg.tgt \notin Elems(pre)
    /\ arg.val \notin Elems(pre)
    /\ size(pre) >= 3

\* C9: dequeue() on an empty queue leaves it empty and raises nothing; on a
\* non-empty queue the result is the storage with the last element moved into
\* position 0, shortened by one and bubbled down from 0 (one element: empty).
C9_Dequeue ==
    op = "dequeue" =>
        /\ ~ub
        /\ empty(pre) => heap_cntr = <<>>
        /\ ~empty(pre) =>
            heap_cntr = bubble_down(
                SubSeq([pre EXCEPT ![1] = pre[Len(pre)]], 1, Len(pre) - 1), 0)
        /\ size(pre) = 1 => heap_cntr = <<>>

C9_Witness ==
    /\ op = "dequeue"
    /\ size(pre) >= 4
    /\ heap_cntr # SubSeq([pre EXCEPT ![1] = pre[Len(pre)]], 1, Len(pre) - 1)

\* C10: alter(pos, v) on a valid heap with a valid pos leaves a valid heap
\* whose elements are the old ones with the element formerly at pos replaced
\* by v, whatever the old and new values are.
C10_AlterPosition ==
    (op = "alter_pos" /\ HeapValid(pre)) =>
        /\ ~ub
        /\ HeapValid(heap_cntr)
        /\ size(heap_cntr) = size(pre)
        /\ SameBag(heap_cntr, [pre EXCEPT ![arg.pos + 1] = arg.val])
        /\ arg.val \in Elems(heap_cntr)

C10_Witness ==
    /\ op = "alter_pos"
    /\ HeapValid(pre)
    /\ size(pre) >= 4
    /\ arg.pos >= 1
    /\ heap_cntr # [pre EXCEPT ![arg.pos + 1] = arg.val]

\* C11: heapify() on a sequence that already satisfies the heap invariant leaves
\* every position unchanged, and heapify() applied to its own result changes nothing.
C11_HeapifyIdempotent ==
    op = "heapify" =>
        /\ HeapValid(pre) => heap_cntr = pre
        /\ heapify(heap_cntr) = heap_cntr

C11_Witness ==
    /\ op = "heapify"
    /\ HeapValid(pre)
    /\ size(pre) >= 4
    /\ Cardinality(Elems(pre)) >= 2

\* C12: heapify() on an arbitrary sequence (at construction from a container or
\* range, or after raw writes; empty and one-element sequences included) gives a
\* permutation of it that satisfies the heap invariant, so top() is a highest element.
C12_HeapifyMakesHeap ==
    op \in {"construct", "heapify"} =>
        /\ size(heap_cntr) = size(pre)
        /\ SameBag(heap_cntr, pre)
        /\ HeapValid(heap_cntr)
        /\ ~empty(heap_cntr) => Highest(top(heap_cntr), heap_cntr)

C12_Witness ==
    /\ op = "heapify"
    /\ ~HeapValid(pre)
    /\ size(pre) >= 4
    /\ heap_cntr # pre
    /\ top(heap_cntr) # top(pre)

\* the storage with every element equal to tgt replaced by v
ReplacedEq(h, tgt, v) == [i \in 1..Len(h) |-> IF h[i] = tgt THEN v ELSE h[i]]

\* the storage with every element satisfying p replaced by v
ReplacedIf(h, p, v) == [i \in 1..Len(h) |-> IF TestPred(p, h[i]) THEN v ELSE h[i]]

\* C13: alter_all (pair form and predicate form) overwrites every matching
\* element: the stored multiset is the old one with each match replaced by the
\* new value, the others are kept, and the heap invariant holds.
C13_AlterAll ==
    /\ op = "alter_all_pair" =>
        /\ size(heap_cntr) = size(pre)
        /\ SameBag(heap_cntr, ReplacedEq(pre, arg.tgt, arg.val))
        /\ arg.tgt # arg.val => arg.tgt \notin Elems(heap_cntr)
        /\ HeapValid(heap_cntr)
    /\ op = "alter_all_pred" =>
        /\ size(heap_cntr) = size(pre)
        /\ SameBag(heap_cntr, ReplacedIf(pre, arg.pred, arg.val))
        /\ HeapValid(heap_cntr)

C13_Witness ==
    /\ op = "alter_all_pair"
    /\ Count(pre, arg.tgt) >= 2
    /\ arg.tgt # arg.val
    /\ Count(pre, arg.val) >= 1
    /\ size(pre) >= 4

\* C14: alter_all with no matching element leaves the stored sequence identical,
\* position by position, although heapify() still runs.
C14_AlterAllNoMatch ==
    /\ (op = "alter_all_pair" /\ arg.tgt \notin Elems(pre)) => heap_cntr = pre
    /\ (op = "alter_all_pred" /\ \A x \in Elems(pre) : ~TestPred(arg.pred, x)) =>
            heap_cntr = pre

\* C15: erase(first, last) on a valid heap removes exactly the elements at
\* positions [first, last), keeps the others and leaves a valid heap; an empty
\* range leaves the sequence unchanged.
C15_EraseRange ==
    (op = "erase_range" /\ HeapValid(pre)) =>
        /\ size(heap_cntr) = size(pre) - (arg.last - arg.pos)
        /\ SameBag(heap_cntr, vec_erase_range(pre, arg.pos, arg.last))
        /\ HeapValid(heap_cntr)
        /\ arg.pos = arg.last => heap_cntr = pre

C15_Witness ==
    /\ op = "erase_range"
    /\ HeapValid(pre)
    /\ arg.last - arg.pos >= 1
    /\ size(heap_cntr) >= 3
    /\ heap_cntr # vec_erase_range(pre, arg.pos, arg.last)

\* no element of the sequence is outranked by a later one
Ordered(s) == \A i \in 1..Len(s) : \A j \in (i + 1)..Len(s) : ~Comp(s[i], s[j])

\* C16: the ordered drain (write_ordered / operator<<) works on a copy: it emits
\* all stored elements in non-increasing priority order and leaves the queue's
\* stored sequence and size as they were.
C16_WriteOrdered ==
    op = "write_ordered" =>
        /\ Len(out) = size(pre)
        /\ SameBag(out, pre)
        /\ Ordered(out)
        /\ heap_cntr = pre

\* the positions of h whose element equals v, and those whose element satisfies p
MatchEq(h, v) == {i \in 0..(Len(h) - 1) : At(h, i) = v}

MatchIf(h, p) == {i \in 0..(Len(h) - 1) : TestPred(p, At(h, i))}

\* the lowest position of M, or the past-the-end position of h when M is empty
FirstOr(M, h) == IF M = {} THEN cend(h) ELSE CHOOSE i \in M : \A j \in M : i <= j

\* C17: find(value) and find(predicate) return the lowest matching storage
\* position, or cend() when nothing matches; find_all returns exactly the set of
\* matching positions; none of them changes the stored sequence.
C17_Find ==
    /\ op = "find" => res.it = FirstOr(MatchEq(pre, arg.val), pre) /\ heap_cntr = pre
    /\ op = "find_if" => res.it = FirstOr(MatchIf(pre, arg.pred), pre) /\ heap_cntr = pre
    /\ op = "find_all" => res.its = MatchEq(pre, arg.val) /\ heap_cntr = pre
    /\ op = "find_all_if" => res.its = MatchIf(pre, arg.pred) /\ heap_cntr = pre

C17_Witness ==
    /\ op = "find_all"
    /\ Cardinality(res.its) >= 2
    /\ 0 \in res.its
    /\ Cardinality(res.its) < size(pre)

At_(labels) == {t \in Threads : tpc[t] \in labels}

\* C19: wait() goes on to its decrement only at a moment when count > 0 and takes
\* exactly 1, notify() adds exactly 1; so count is the initial count plus the
\* notify() calls made minus the wait() calls made (a call past its ++count or
\* --count that has not yet returned counted in), exactly the returned calls when
\* no thread holds the mutex, and count never goes below 0.
C19_SemaphoreCount ==
    /\ count = sem_init + notified - waited
                + Cardinality(At_({"n_signal", "n_unlock"}))
                - Cardinality(At_({"w_unlock"}))
    /\ mut = 0 => count = sem_init + notified - waited
    /\ count >= 0
    /\ \A t \in Threads : tpc[t] = "w_dec" => (count > 0 /\ mut = t)

C19_Witness ==
    /\ waited >= 1
    /\ notified >= 1
    /\ \E t \in Threads : tpc[t] = "w_blocked"
    /\ count = 0
    /\ mut = 0

\* C20: in every state reached by construction, push_back, pop_back, resize and
\* clear, empty() is true exactly when size() is 0.
C20_EmptyIffNoElements == da_empty(Da) <=> (da_size(Da) = 0)

\* the call in progress is bubble_down(arg.pos) and its first invocation has
\* swapped (first = the child it swapped with) or returned without a swap
FirstChoice == IF Len(run.path) >= 2 THEN run.path[2] ELSE arg.pos

FirstDecided == op = "bubble_down" /\ (Len(run.path) >= 2 \/ run.done)

\* C21: in bubble_down(pos), when both children outrank H[pos] and neither
\* outranks the other, H[pos] is swapped with the left child; the right child is
\* chosen only when it outranks both H[pos] and the left child; when no child
\* outranks H[pos] nothing is swapped.
C21_TieRule ==
    FirstDecided =>
        LET p == arg.pos
            l == 2 * p + 1
            r == 2 * p + 2
            n == Len(pre)
            outL == l < n /\ Comp(At(pre, p), At(pre, l))
            outR == r < n /\ Comp(At(pre, p), At(pre, r))
        IN  /\ (outL /\ outR /\ ~Comp(At(pre, l), At(pre, r)) /\ ~Comp(At(pre, r), At(pre, l)))
                    => FirstChoice = l
            /\ FirstChoice = r => (outR /\ Comp(At(pre, l), At(pre, r)))
            /\ (~outL /\ ~outR) => (FirstChoice = p /\ heap_cntr = pre)
            /\ FirstChoice \in {p, l, r}
            /\ Len(run.path) = 2 => heap_cntr = std_swap(pre, p, FirstChoice)

\* both children tie, both outrank the parent, and the left one was taken
C21_Witness ==
    /\ FirstDecided
    /\ 2 * arg.pos + 2 < Len(pre)
    /\ At(pre, 2 * arg.pos + 1) = At(pre, 2 * arg.pos + 2)
    /\ Comp(At(pre, arg.pos), At(pre, 2 * arg.pos + 1))
    /\ FirstChoice = 2 * arg.pos + 1

RECURSIVE Log2Floor(_)
Log2Floor(n) == IF n <= 1 THEN 0 ELSE 1 + Log2Floor(n \div 2)

\* every recursive invocation is at a child (bubble_down) or at the parent
\* (bubble_up) of the one before, and the swaps made so far fit the height
StepsBounded ==
    /\ op \in {"bubble_down", "heapify"} =>
            \A k \in 1..(Len(run.path) - 1) :
                /\ run.path[k + 1] > run.path[k]
                /\ run.path[k + 1] \in {2 * run.path[k] + 1, 2 * run.path[k] + 2}
    /\ op = "bubble_up" =>
            \A k \in 1..(Len(run.path) - 1) :
                /\ run.path[k + 1] < run.path[k]
                /\ run.path[k + 1] = (run.path[k] - 1) \div 2
    /\ \A k \in 1..Len(run.path) : run.path[k] \in 0..(Len(heap_cntr) - 1)
    /\ run.path # <<>> => Len(run.path) - 1 <= Log2Floor(Len(heap_cntr))
    /\ op = "heapify" => run.i \in -1..(Len(heap_cntr) - 1)

\* C22: every bubble_down(pos), bubble_up(pos) and heapify() call reaches its
\* return, for every heap size (heapify also on the empty heap); each recursive
\* step moves strictly down (bubble_down) or strictly up (bubble_up) and a call
\* makes at most floor(log2(n)) swaps.
C22_SiftTerminates == [](StepsBounded) /\ ((op # "none") ~> Returned)

\* a bubble_down from the root that swapped at every level of a heap of height 2
C22_Witness ==
    /\ op = "bubble_down"
    /\ Returned
    /\ Len(run.path) = 3
    /\ Log2Floor(Len(heap_cntr)) = 2

Children(h, i) == {c \in {2 * i + 1, 2 * i + 2} : c < Len(h)}

\* the heap invariant holds for every parent/child pair in which pos is not the child
ValidExceptChild(h, pos) ==
    \A i \in 0..(Len(h) - 1) : \A c \in Children(h, i) \ {pos} : ~Comp(At(h, i), At(h, c))

\* the heap invariant holds for every parent/child pair in which pos is not the parent
ValidExceptParent(h, pos) ==
    \A i \in (0..(Len(h) - 1)) \ {pos} : \A c \in Children(h, i) : ~Comp(At(h, i), At(h, c))

\* no child of pos outranks the parent of pos: the heap is valid around pos
ValidAround(h, pos) ==
    pos > 0 => \A c \in Children(h, pos) : ~Comp(At(h, (pos - 1) \div 2), At(h, c))

\* C23 as stated: when only the pairs with pos as child (bubble_up), or only the
\* pairs with pos as parent (bubble_down), may break the heap invariant, the call
\* on pos restores it.
C23_LocalRepairAsStated ==
    /\ (op = "bubble_up" /\ Returned /\ ValidExceptChild(pre, arg.pos))
            => HeapValid(heap_cntr)
    /\ (op = "bubble_down" /\ Returned /\ ValidExceptParent(pre, arg.pos))
            => HeapValid(heap_cntr)

\* C23 amended: the same, provided also that no child of pos outranks the parent
\* of pos.
C23_LocalRepair ==
    /\ (op = "bubble_up" /\ Returned /\ ValidExceptChild(pre, arg.pos)
            /\ ValidAround(pre, arg.pos))
            => HeapValid(heap_cntr)
    /\ (op = "bubble_down" /\ Returned /\ ValidExceptParent(pre, arg.pos)
            /\ ValidAround(pre, arg.pos))
            => HeapValid(heap_cntr)

\* a bubble_down below the root that had a broken heap to repair and swapped
C23_Witness ==
    /\ op = "bubble_down"
    /\ Returned
    /\ arg.pos > 0
    /\ ValidExceptParent(pre, arg.pos)
    /\ ValidAround(pre, arg.pos)
    /\ ~HeapValid(pre)
    /\ Len(run.path) >= 2

\* higherPriority(a, b) of the specification: a outranks b
higherPriority(a, b) == Comp(b, a)

\* the position a single-element alter by position or by predicate has written to
AlteredPos == IF op = "alter_pos" THEN arg.pos ELSE find_if(pre, arg.pred)

AlterHit == op \in {"alter_pos", "alter_pred"} /\ AlteredPos # cend(pre)

\* C24 as stated: with wasHigher = higherPriority(H[position], newValue) taken on
\* the old element, alter calls bubbleUp(position) exactly when wasHigher is
\* false and bubbleDown(position) otherwise.
C24_DirectionAsStated ==
    AlterHit =>
        LET wasHigher == higherPriority(At(pre, AlteredPos), arg.val)
        IN  run = Via(IF ~wasHigher THEN "bubble_up" ELSE "bubble_down", AlteredPos)

\* C24 amended: alter takes b_up = comp(H[position], newValue) on the old
\* element (newValue outranks it), assigns the new value, then calls
\* bubble_up(position) exactly when b_up is true and bubble_down(position)
\* otherwise, also when neither element outranks the other.
C24_Direction ==
    AlterHit =>
        LET b_up == higherPriority(arg.val, At(pre, AlteredPos))
            w == [pre EXCEPT ![AlteredPos + 1] = arg.val]
        IN  /\ run = Via(IF b_up THEN "bubble_up" ELSE "bubble_down", AlteredPos)
            /\ heap_cntr = IF b_up THEN bubble_up(w, AlteredPos)
                                    ELSE bubble_down(w, AlteredPos)

\* an alter by position with a value that outranks the old one and moved up
C24_Witness ==
    /\ op = "alter_pos"
    /\ arg.pos > 0
    /\ higherPriority(arg.val, At(pre, arg.pos))
    /\ run.name = "bubble_up"
    /\ At(heap_cntr, arg.pos) # arg.val

\* b holds the elements of a and one more v (n = 1), or one v less (n = -1)
BagPlus(a, b, v, n) ==
    \A x \in Values : Count(b, x) = Count(a, x) + (IF x = v THEN n ELSE 0)

\* C25: bubble_up, bubble_down and heapify only permute the stored elements;
\* enqueue(e) adds exactly one e; dequeue() on a non-empty queue removes exactly
\* one instance of the element that was at position 0; nothing else is lost or
\* duplicated. Both queues.
C25_Conservation ==
    /\ op \in {"bubble_down", "bubble_up", "heapify", "construct"} =>
            (Len(heap_cntr) = Len(pre) /\ SameBag(pre, heap_cntr))
    /\ op \in {"enqueue", "emplace", "u_enqueue"} =>
            (Len(heap_cntr) = Len(pre) + 1 /\ BagPlus(pre, heap_cntr, arg.val, 1))
    /\ (op \in {"dequeue", "u_dequeue"} /\ pre # <<>>) =>
            (Len(heap_cntr) = Len(pre) - 1 /\ BagPlus(pre, heap_cntr, At(pre, 0), -1))

\* a dequeue of the manual heap whose top and last elements differed
C25_Witness ==
    /\ op = "u_dequeue"
    /\ Len(pre) >= 3
    /\ At(pre, 0) # At(pre, Len(pre) - 1)
    /\ Count(pre, At(pre, 0)) >= 2

\* C26: a priority_queue and an unstable_priority_queue with the same comparator
\* that are given the same construct/enqueue/dequeue/erase/clear calls, and no raw
\* writes, hold identical storage after every call.
C26_SameStorage == phase = "pair" => heap_cntr_u = heap_cntr

\* a dequeue on both where the top and the last element differed and more than
\* one element stays
C26_Witness ==
    /\ phase = "pair"
    /\ op = "dequeue"
    /\ Len(pre) >= 4
    /\ At(pre, 0) # At(pre, Len(pre) - 1)
    /\ heap_cntr_u = heap_cntr

\* the value a that the last single-element alter looked for: the key of the
\* pair, the k of the predicate x == k, or the element that was at the position
AlterKey ==
    IF op = "alter_pair" THEN arg.tgt
    ELSE IF op = "alter_pred" THEN arg.pred.k
    ELSE At(pre, arg.pos)

\* the last call is one of the three forms of alter for the first occurrence of a
\* value the valid heap held
AlterFirstOfKey ==
    /\ \/ op = "alter_pair"
       \/ op = "alter_pred" /\ arg.pred.kind = "eq"
       \/ op = "alter_pos" /\ arg.pos = FirstOr(MatchEq(pre, At(pre, arg.pos)), pre)
    /\ HeapValid(pre)
    /\ AlterKey \in Elems(pre)

\* C27: on a valid heap that holds a, alter by pair (a, b), alter by predicate
\* x == a with b, and alter by the position of the first a with b leave the same
\* storage: the first a, and no other element, is overwritten with b, and the
\* element is bubbled up exactly when b outranks a, whether that is read from the
\* key a after the overwrite or from the stored element before it.
C27_AlterFormsAgree ==
    AlterFirstOfKey =>
        LET a == AlterKey
            b == arg.val
            it == FirstOr(MatchEq(pre, a), pre)
            w == [pre EXCEPT ![it + 1] = b]
            up == higherPriority(b, a)
        IN  /\ run = Via(IF up THEN "bubble_up" ELSE "bubble_down", it)
            /\ heap_cntr = IF up THEN bubble_up(w, it) ELSE bubble_down(w, it)
            /\ SameBag(heap_cntr, w)

\* the pair form on a heap with two a, the first of them below the root, and a b
\* that outranks a and was handed to bubble_up
C27_Witness ==
    /\ AlterFirstOfKey
    /\ op = "alter_pair"
    /\ Count(pre, arg.tgt) >= 2
    /\ higherPriority(arg.val, arg.tgt)
    /\ FirstOr(MatchEq(pre, arg.tgt), pre) > 0
    /\ run.name = "bubble_up"
    /\ Count(heap_cntr, arg.tgt) = Count(pre, arg.tgt) - 1

\* the threads inside wait() that have not yet taken their unit of count
InWait == At_({"w_lock", "w_test", "w_blocked", "w_woken", "w_dec"})

\* C28: under fair scheduling no wakeup is lost: it never happens that count > 0
\* for ever while a thread stays inside wait(), and when from some point on count
\* covers every thread inside wait() (k waiters, k notifies), all of them return.
C28_NoLostWakeup ==
    /\ ~<>[](count > 0 /\ InWait # {})
    /\ <>[](count >= Cardinality(InWait)) => []<>(InWait = {})

\* a thread that was blocked on cv has been woken by a notify() that is about to
\* return, while another thread is still blocked
C28_Witness ==
    /\ count > 0
    /\ \E t \in Threads : tpc[t] = "n_unlock"
    /\ \E t \in Threads : tpc[t] = "w_woken"
    /\ \E t \in Threads : tpc[t] = "w_blocked"

\* C29: size() <= capacity() in every state reached by construction, push_back,
\* pop_back and erase on a non-empty array, reserve, resize, clear and insert;
\* reserve(new_cap) changes the capacity only when new_cap > capacity(), and
\* clear() leaves the capacity as it was.
C29_SizeWithinCapacity ==
    /\ da_size(Da) <= da_capacity(Da)
    /\ Len(arr) = arr_size
    /\ da_op.name = "reserve" =>
            /\ da_capacity(Da) = IF da_op.n > da_op.pre.arr_capacity
                                  THEN da_op.n ELSE da_op.pre.arr_capacity
            /\ arr = da_op.pre.arr
    /\ da_op.name = "clear" =>
            (da_capacity(Da) = da_op.pre.arr_capacity /\ da_size(Da) = 0)

\* a resize that grew the array to a size below the capacity it had
C29_Witness ==
    /\ da_op.name \in {"resize", "resize_val"}
    /\ da_op.n > da_op.pre.arr_size
    /\ da_op.n < da_op.pre.arr_capacity
    /\ da_op.pre.arr_size > 0
    /\ da_size(Da) = da_op.n

\* C30: push_back(v), v the value of the argument when the call is made,
\* puts v at index old size(), makes size() one larger and
\* keeps every element at its index; a full array (size() = capacity()) gets
\* twice the capacity, 8 when the capacity was 0; otherwise the capacity stays.
C30_PushBack ==
    da_op.name = "push_back" =>
        LET p == da_op.pre
        IN  /\ da_size(Da) = p.arr_size + 1
            /\ arr = Append(p.arr, da_op.v)
            /\ da_capacity(Da) = IF p.arr_size = p.arr_capacity
                                  THEN (IF p.arr_capacity = 0 THEN 8 ELSE 2 * p.arr_capacity)
                                  ELSE p.arr_capacity

====
